---- MODULE Spec2Model ----
(***************************************************************************)
(* A model of StorageService (lib/storage.service.ts): a key-value facade  *)
(* over window.localStorage / window.sessionStorage with per-entry         *)
(* expiration, key prefixing and two notification streams.                 *)
(*                                                                         *)
(* JavaScript strings are sequences of one-character strings, JavaScript   *)
(* values are tagged records, and the text kept by the medium is modelled  *)
(* by the JSON value it parses to (or as text JSON.parse rejects).         *)
(***************************************************************************)
EXTENDS Integers, Sequences, FiniteSets

VARIABLES window, stores, ctor, now, seq, last, ref

vars == <<window, stores, ctor, now, seq, last, ref>>

(***************************************************************************)
(* Bounds                                                                  *)
(***************************************************************************)
\* the clock runs from 0 to MaxTime
MaxTime == 2

(***************************************************************************)
(* JavaScript values                                                       *)
(***************************************************************************)
Undefined == [t |-> "undefined"]
Null == [t |-> "null"]
NaN == [t |-> "NaN"]
Num(n) == [t |-> "number", n |-> n]
Str(s) == [t |-> "string", s |-> s]
Bool(b) == [t |-> "boolean", b |-> b]
Obj(f) == [t |-> "object", f |-> f]

\* typeof v
TypeOf(v) ==
  CASE v.t = "undefined" -> "undefined"
    [] v.t = "null" -> "object"
    [] v.t = "NaN" -> "number"
    [] v.t = "number" -> "number"
    [] v.t = "string" -> "string"
    [] v.t = "boolean" -> "boolean"
    [] v.t = "object" -> "object"

\* ToBoolean(v): what `v ? a : b` and `v || d` test
Truthy(v) ==
  CASE v.t = "undefined" -> FALSE
    [] v.t = "null" -> FALSE
    [] v.t = "NaN" -> FALSE
    [] v.t = "number" -> v.n # 0
    [] v.t = "string" -> v.s # <<>>
    [] v.t = "boolean" -> v.b
    [] v.t = "object" -> TRUE

\* obj[name] on an object: undefined when the property is missing
Prop(obj, name) == IF name \in DOMAIN obj.f THEN obj.f[name] ELSE Undefined

(***************************************************************************)
(* Number formatting: String(n)                                            *)
(***************************************************************************)
Digits == <<"0", "1", "2", "3", "4", "5", "6", "7", "8", "9">>

RECURSIVE NatToString(_)
NatToString(n) ==
  IF n < 10 THEN <<Digits[n + 1]>>
  ELSE NatToString(n \div 10) \o <<Digits[(n % 10) + 1]>>

\* String(v) for the values an envelope field can hold
StringOf(v) ==
  CASE v.t = "undefined" -> <<"u", "n", "d", "e", "f", "i", "n", "e", "d">>
    [] v.t = "null" -> <<"n", "u", "l", "l">>
    [] v.t = "NaN" -> <<"N", "a", "N">>
    [] v.t = "number" ->
         IF v.n < 0 THEN <<"-">> \o NatToString(-v.n) ELSE NatToString(v.n)
    [] v.t = "string" -> v.s
    [] v.t = "boolean" ->
         IF v.b THEN <<"t", "r", "u", "e">> ELSE <<"f", "a", "l", "s", "e">>
    [] v.t = "object" ->
         <<"[", "o", "b", "j", "e", "c", "t", " ", "O", "b", "j", "e", "c", "t", "]">>

(***************************************************************************)
(* The duration parser ms(str)                                             *)
(***************************************************************************)
DigitValue(c) == CHOOSE d \in 0..9 : Digits[d + 1] = c

IsDigit(c) == \E d \in 0..9 : Digits[d + 1] = c

\* the length of the longest prefix of s made of digits
RECURSIVE DigitPrefixLen(_)
DigitPrefixLen(s) ==
  IF s # <<>> /\ IsDigit(Head(s)) THEN 1 + DigitPrefixLen(Tail(s)) ELSE 0

RECURSIVE DigitsValue(_, _)
DigitsValue(s, acc) ==
  IF s = <<>> THEN acc ELSE DigitsValue(Tail(s), (acc * 10) + DigitValue(Head(s)))

UnitNames == {<<"m", "s">>, <<"s">>, <<"m">>, <<"h">>, <<"d">>}

UnitMillis(u) ==
  CASE u = <<"m", "s">> -> 1
    [] u = <<"s">> -> 1000
    [] u = <<"m">> -> 60000
    [] u = <<"h">> -> 3600000
    [] u = <<"d">> -> 86400000

\* ms(str): [ok |-> TRUE, n |-> milliseconds], or [ok |-> FALSE] when the
\* parser fails on an unrecognized format
ms(str) ==
  LET neg == str # <<>> /\ Head(str) = "-"
      body == IF neg THEN Tail(str) ELSE str
      k == DigitPrefixLen(body)
      unit == SubSeq(body, k + 1, Len(body))
      mag == DigitsValue(SubSeq(body, 1, k), 0) * UnitMillis(unit)
  IN IF k > 0 /\ unit \in UnitNames
     THEN [ok |-> TRUE, n |-> IF neg THEN -mag ELSE mag]
     ELSE [ok |-> FALSE]

(***************************************************************************)
(* JSON text and the storage medium                                        *)
(***************************************************************************)
EXPIRED_AT == "@@EXPIRED_AT"
STOREAGE_VALUE == "@@STORAGE_VALUE"
EXPIRED_MS == "@@EXPIRED_MS"

\* A text kept by the medium: the empty string, a text JSON.parse rejects,
\* or the JSON text of a value.
EmptyText == [kind |-> "empty"]
JunkText == [kind |-> "junk"]
JsonText(v) == [kind |-> "json", val |-> v]

\* what JSON.stringify writes for a property value: NaN becomes null
JsonProperty(v) == IF v.t = "NaN" THEN Null ELSE v

\* JSON.stringify(obj) of a flat object: properties holding undefined are
\* left out, the others are written as JSON
JSONstringify(obj) ==
  LET kept == {n \in DOMAIN obj.f : obj.f[n].t # "undefined"}
  IN JsonText(Obj([n \in kept |-> JsonProperty(obj.f[n])]))

\* JSON.parse(text): [ok |-> TRUE, val |-> value] or [ok |-> FALSE] (SyntaxError)
JSONparse(text) ==
  IF text.kind = "json" THEN [ok |-> TRUE, val |-> text.val] ELSE [ok |-> FALSE]

StorageType_LOCAL == "localStorage"
StorageType_SESSION == "sessionStorage"
StorageTypes == {StorageType_LOCAL, StorageType_SESSION}

\* an event of a call, in the order the call produces them
ActionEvent(a) == [e |-> "action", action |-> a]
ErrorEvent(err) == [e |-> "error", error |-> err]
IoEvent(call, type, key) == [e |-> "io", call |-> call, medium |-> type, key |-> key]

IsError(ev) == ev.e = "error"

\* the error notifications among the events of a call, in order
ErrorsOf(trace) == SelectSeq(trace, IsError)

\* Storage.setItem / removeItem / clear on window[type]
setItem(w, type, key, text) ==
  [w EXCEPT ![type].items =
     [k \in DOMAIN w[type].items \cup {key} |->
        IF k = key THEN text ELSE w[type].items[k]]]

removeItem(w, type, key) ==
  [w EXCEPT ![type].items = [k \in DOMAIN w[type].items \ {key} |-> w[type].items[k]]]

clearItems(w, type) == [w EXCEPT ![type].items = <<>>]

\* Storage.getItem: null when the key is missing
HasItem(w, type, key) == key \in DOMAIN w[type].items

\* the call raises: a medium that throws on every access raises in each
\* call, a read-only one in the calls that change it
Raises(w, type, call) ==
  \/ w[type].status = "throwing"
  \/ w[type].status = "readonly" /\ call # "getItem"

(***************************************************************************)
(* Errors and action records                                               *)
(***************************************************************************)
LOCAL_STORAGE_NOT_SUPPORTED == [name |-> "LOCAL_STORAGE_NOT_SUPPORTED"]
SESSION_STORAGE_NOT_SUPPORTED == [name |-> "SESSION_STORAGE_NOT_SUPPORTED"]
UNKNOWN_STORAGE_TYPE == [name |-> "UNKNOWN_STORAGE_TYPE"]
RuntimeError(msg) == [name |-> "runtime", code |-> 500, message |-> msg]

ActionTypes == {"Set", "Get", "Remove", "Clear"}
SetAction(key, value, expiredIn) ==
  [type |-> "Set", key |-> key, value |-> value, expiredIn |-> expiredIn]
GetAction(key) == [type |-> "Get", key |-> key]
RemoveAction(key) == [type |-> "Remove", key |-> key]
ClearAction == [type |-> "Clear"]

(***************************************************************************)
(* The event streams: actions and errors are Subjects                      *)
(***************************************************************************)
\* the subscribers of the action stream of an instance: nobody, subscribers
\* that return, or subscribers one of which raises at each emission.
\* Subject.next calls the subscribers synchronously, and what a subscriber
\* raises leaves next().
ActionSubscribers == {"none", "quiet", "raising"}
SubscriberFault == "subscriber failed"

\* new Subject(), as the error stream: nobody is subscribed, and received
\* keeps the errors delivered to its subscribers
NewSubject == [subscribed |-> FALSE, received |-> {}]

\* faulty variant: a stream that keeps what it emitted for later subscribers
next_Buffered(subject, events) ==
  [subject EXCEPT !.received = @ \cup {events[i].error : i \in DOMAIN events}]

\* errors.next(e) for each of the error events, in order: an error reaches
\* the subscribers there are at the emission, and nobody else
next(subject, events) ==
  IF subject.subscribed
  THEN [subject EXCEPT !.received = @ \cup {events[i].error : i \in DOMAIN events}]
  ELSE subject

\* errors.subscribe(observer)
subscribe(subject) == [subject EXCEPT !.subscribed = TRUE]

(***************************************************************************)
(* StorageService: private helpers                                         *)
(***************************************************************************)
\* the storage field of an instance whose backend was never bound
Unset == "undefined"

\* what a call threw to its caller
NoThrow == "none"
DurationError == "Error: ms() rejected the duration"
TypeError == "TypeError: this.storage is undefined"
BackendFault == "DOMException: the medium refused the call"

\* the outcome of a call: the window afterwards, the events produced in
\* order, what it threw to the caller and what it returned
Outcome(w, trace, thrown, result) ==
  [w |-> w, trace |-> trace, thrown |-> thrown, result |-> result]

\* faulty variant: the notification is emitted whatever actionNotify says
notifyAction_Ungated(self, action, actionArgs) == <<ActionEvent(actionArgs)>>

\* faulty variant: the catch block reports nothing
notifyAction_Unreported(self, action, actionArgs) ==
  IF Truthy(Prop(self.actionNotify, action))
  THEN <<ActionEvent(actionArgs)>>
  ELSE <<>>

\* notifyAction(action, actionArgs): the events it produces. What a
\* subscriber raises in actions.next is caught and sent to the error stream.
notifyAction(self, action, actionArgs) ==
  IF Truthy(Prop(self.actionNotify, action))
  THEN IF self.actions = "raising"
       THEN <<ActionEvent(actionArgs), ErrorEvent(RuntimeError(SubscriberFault))>>
       ELSE <<ActionEvent(actionArgs)>>
  ELSE <<>>

\* faulty variant: a duration the parser rejects falls back to the default
computeExpiredMs_Lenient(self, expiredIn) ==
  IF Truthy(expiredIn) /\ ms(expiredIn.s).ok
  THEN ms(expiredIn.s)
  ELSE [ok |-> TRUE, n |-> self.expiredMs]

\* computeExpiredMs(expiredIn): ms(expiredIn) when expiredIn is truthy, else
\* the instance's default
computeExpiredMs(self, expiredIn) ==
  IF Truthy(expiredIn) THEN ms(expiredIn.s) ELSE [ok |-> TRUE, n |-> self.expiredMs]

\* computeKey(originalKey) = `${prefix}__${originalKey}`
computeKey(self, originalKey) == self.prefix \o <<"_", "_">> \o originalKey

isValidValue(obj) ==
  /\ TypeOf(obj) = "object"
  /\ obj # Null
  /\ TypeOf(Prop(obj, EXPIRED_AT)) = "number"

\* faulty variant: an entry is expired already at its expiry instant
unExpired_Strict(mills, t) == mills = Num(-1) \/ (mills.t = "number" /\ mills.n > t)

\* unExpired(mills) at clock time t; mills is a number
unExpired(mills, t) == mills = Num(-1) \/ (mills.t = "number" /\ mills.n >= t)

\* faulty variant: the expiry is the duration itself, the clock is not added
Envelope_NoClock(expiredMs, value, t) ==
  Obj([n \in {EXPIRED_MS, EXPIRED_AT, STOREAGE_VALUE} |->
         CASE n = EXPIRED_MS -> Num(expiredMs)
           [] n = EXPIRED_AT -> Num(expiredMs)
           [] n = STOREAGE_VALUE -> value])

\* the envelope set() builds at clock time t
Envelope(expiredMs, value, t) ==
  Obj([n \in {EXPIRED_MS, EXPIRED_AT, STOREAGE_VALUE} |->
         CASE n = EXPIRED_MS -> Num(expiredMs)
           [] n = EXPIRED_AT -> IF expiredMs = -1 THEN Num(-1) ELSE Num(t + expiredMs)
           [] n = STOREAGE_VALUE -> value])

(***************************************************************************)
(* StorageService: construction                                            *)
(***************************************************************************)
DefaultPrefix == <<"M", "I", "Z", "N", "E">>

\* faulty variant: the default duration is parsed even when none is configured
initConfig_ParseAlways(config) ==
  LET parsed == IF Truthy(config.expiredIn)
                THEN ms(config.expiredIn.s)
                ELSE [ok |-> FALSE]
  IN IF parsed.ok
     THEN [raised |-> FALSE,
           prefix |-> IF Truthy(config.prefix) THEN config.prefix.s ELSE DefaultPrefix,
           expiredMs |-> parsed.n,
           actionNotify |-> IF Truthy(config.actionNotify)
                            THEN config.actionNotify ELSE Obj(<<>>),
           keepAlive |-> IF Truthy(config.keepAlive) THEN config.keepAlive ELSE Bool(FALSE)]
     ELSE [raised |-> TRUE]

\* initConfig(config): the configured fields, or raised when ms() rejects
\* config.expiredIn
initConfig(config) ==
  LET parsed == IF Truthy(config.expiredIn)
                THEN ms(config.expiredIn.s)
                ELSE [ok |-> TRUE, n |-> -1]
  IN IF parsed.ok
     THEN [raised |-> FALSE,
           prefix |-> IF Truthy(config.prefix) THEN config.prefix.s ELSE DefaultPrefix,
           expiredMs |-> parsed.n,
           actionNotify |-> IF Truthy(config.actionNotify)
                            THEN config.actionNotify ELSE Obj(<<>>),
           keepAlive |-> IF Truthy(config.keepAlive) THEN config.keepAlive ELSE Bool(FALSE)]
     ELSE [raised |-> TRUE]

\* faulty variant: the catch block of the probe reports nothing
checkSupport_Silent(prefix, storageType, w) ==
  IF w[storageType].status = "usable"
  THEN LET key == prefix \o <<"_", "C", "H", "E", "C", "K", "_", "S", "U", "P", "P", "O", "R", "T">>
       IN [supported |-> TRUE,
           w |-> removeItem(setItem(w, storageType, key, EmptyText), storageType, key),
           trace |-> <<IoEvent("setItem", storageType, key),
                       IoEvent("removeItem", storageType, key)>>]
  ELSE [supported |-> FALSE, w |-> w, trace |-> <<>>]

\* checkSupport(storageType): the probe writes and removes a sentinel key
checkSupport(prefix, storageType, w) ==
  LET key == prefix \o <<"_", "C", "H", "E", "C", "K", "_", "S", "U", "P", "P", "O", "R", "T">>
  IN CASE w[storageType].status = "usable" ->
            [supported |-> TRUE,
             w |-> removeItem(setItem(w, storageType, key, EmptyText), storageType, key),
             trace |-> <<IoEvent("setItem", storageType, key),
                         IoEvent("removeItem", storageType, key)>>]
       [] w[storageType].status = "absent" ->
            [supported |-> FALSE, w |-> w, trace |-> <<>>]
       [] w[storageType].status = "throwing" ->
            [supported |-> FALSE, w |-> w,
             trace |-> <<ErrorEvent(RuntimeError("access denied"))>>]
       [] w[storageType].status = "readonly" ->
            [supported |-> FALSE, w |-> w,
             trace |-> <<IoEvent("setItem", storageType, key),
                         ErrorEvent(RuntimeError("write refused"))>>]

\* initStorage(storageType): the bound handle (or Unset) and the events
initStorage(prefix, storageType, w) ==
  IF storageType \in StorageTypes
  THEN LET probe == checkSupport(prefix, storageType, w)
           notSupported == IF storageType = StorageType_LOCAL
                           THEN LOCAL_STORAGE_NOT_SUPPORTED
                           ELSE SESSION_STORAGE_NOT_SUPPORTED
       IN IF probe.supported
          THEN [storage |-> storageType, w |-> probe.w, trace |-> probe.trace]
          ELSE [storage |-> Unset, w |-> probe.w,
                trace |-> probe.trace \o <<ErrorEvent(notSupported)>>]
  ELSE [storage |-> Unset, w |-> w, trace |-> <<ErrorEvent(UNKNOWN_STORAGE_TYPE)>>]

\* new StorageService(storageType, config) against window w: the instance
\* (when the constructor returned), the window afterwards, the events
Construct(storageType, config, w) ==
  LET cfg == initConfig(config)
      st == initStorage(cfg.prefix, storageType, w)
  IN IF cfg.raised
     THEN [raised |-> TRUE, w |-> w, trace |-> <<>>]
     ELSE [raised |-> FALSE, w |-> st.w, trace |-> st.trace,
           self |-> [storageType |-> storageType,
                     storage |-> st.storage,
                     prefix |-> cfg.prefix,
                     expiredMs |-> cfg.expiredMs,
                     keepAlive |-> cfg.keepAlive,
                     actionNotify |-> cfg.actionNotify,
                     actions |-> "none",
                     errors |-> next(NewSubject, ErrorsOf(st.trace))]]

(***************************************************************************)
(* StorageService: set, get, remove, clear                                 *)
(***************************************************************************)
\* faulty variant: the notification comes last, after the write went through
set_NotifyLast(self, w, t, key, value, expiredIn) ==
  LET notified == notifyAction(self, "Set", SetAction(key, value, expiredIn))
      expiredMs == computeExpiredMs(self, expiredIn)
      rawKey == computeKey(self, key)
  IN IF ~expiredMs.ok
     THEN Outcome(w, <<>>, DurationError, Undefined)
     ELSE IF self.storage = Unset
     THEN Outcome(w, <<>>, TypeError, Undefined)
     ELSE IF Raises(w, self.storage, "setItem")
     THEN Outcome(w, <<IoEvent("setItem", self.storage, rawKey)>>, BackendFault, Undefined)
     ELSE Outcome(setItem(w, self.storage, rawKey,
                          JSONstringify(Envelope(expiredMs.n, value, t))),
                  <<IoEvent("setItem", self.storage, rawKey)>> \o notified,
                  NoThrow, Undefined)

\* set(key, value, expiredIn) at clock time t
set(self, w, t, key, value, expiredIn) ==
  LET notified == notifyAction(self, "Set", SetAction(key, value, expiredIn))
      expiredMs == computeExpiredMs(self, expiredIn)
      rawKey == computeKey(self, key)
  IN IF ~expiredMs.ok
     THEN Outcome(w, notified, DurationError, Undefined)
     ELSE IF self.storage = Unset
     THEN Outcome(w, notified, TypeError, Undefined)
     ELSE IF Raises(w, self.storage, "setItem")
     THEN Outcome(w, notified \o <<IoEvent("setItem", self.storage, rawKey)>>,
                  BackendFault, Undefined)
     ELSE Outcome(setItem(w, self.storage, rawKey,
                          JSONstringify(Envelope(expiredMs.n, value, t))),
                  notified \o <<IoEvent("setItem", self.storage, rawKey)>>,
                  NoThrow, Undefined)

SyntaxError == "SyntaxError: JSON.parse"

\* faulty variant: the re-write passes no duration, so set falls back to the default
keepAliveExpiredIn_Default(obj) == Undefined

\* String(obj[EXPIRED_MS]) + 'ms': the duration the re-write passes to set
keepAliveExpiredIn(obj) == Str(StringOf(Prop(obj, EXPIRED_MS)) \o <<"m", "s">>)

\* faulty variant: the re-write does not look at keepAlive
shouldKeepAlive_Always(self, obj) == Prop(obj, EXPIRED_AT) # Num(-1)

\* obj[EXPIRED_AT] !== -1 && this.keepAlive
shouldKeepAlive(self, obj) ==
  Prop(obj, EXPIRED_AT) # Num(-1) /\ Truthy(self.keepAlive)

\* faulty variant: the re-write stores the envelope itself, not through set
getTry_DirectWrite(self, w, t, key) ==
  LET rawKey == computeKey(self, key)
  IN IF self.storage = Unset
     THEN Outcome(w, <<>>, TypeError, Undefined)
     ELSE IF Raises(w, self.storage, "getItem")
     THEN Outcome(w, <<IoEvent("getItem", self.storage, rawKey)>>, BackendFault, Undefined)
     ELSE
       LET read == <<IoEvent("getItem", self.storage, rawKey)>>
           item == IF HasItem(w, self.storage, rawKey)
                   THEN w[self.storage].items[rawKey] ELSE EmptyText
           text == IF item = EmptyText THEN JsonText(Null) ELSE item
           parsed == JSONparse(text)
       IN IF ~parsed.ok
          THEN Outcome(w, read, SyntaxError, Undefined)
          ELSE IF ~isValidValue(parsed.val)
          THEN Outcome(w, read, NoThrow, Null)
          ELSE IF unExpired(Prop(parsed.val, EXPIRED_AT), t)
          THEN LET value == Prop(parsed.val, STOREAGE_VALUE)
                   direct == set(self, w, t, key, value, keepAliveExpiredIn(parsed.val))
                   again == [direct EXCEPT !.trace = SelectSeq(@, LAMBDA ev : ev.e # "action")]
               IN IF shouldKeepAlive(self, parsed.val)
                  THEN Outcome(again.w, read \o again.trace, again.thrown, value)
                  ELSE Outcome(w, read, NoThrow, value)
          ELSE IF Raises(w, self.storage, "removeItem")
          THEN Outcome(w, read \o <<IoEvent("removeItem", self.storage, rawKey)>>,
                       BackendFault, Undefined)
          ELSE Outcome(removeItem(w, self.storage, rawKey),
                       read \o <<IoEvent("removeItem", self.storage, rawKey)>>,
                       NoThrow, Null)

\* the body of the try block of get(key) at clock time t
getTry(self, w, t, key) ==
  LET rawKey == computeKey(self, key)
  IN IF self.storage = Unset
     THEN Outcome(w, <<>>, TypeError, Undefined)
     ELSE IF Raises(w, self.storage, "getItem")
     THEN Outcome(w, <<IoEvent("getItem", self.storage, rawKey)>>, BackendFault, Undefined)
     ELSE
       LET read == <<IoEvent("getItem", self.storage, rawKey)>>
           item == IF HasItem(w, self.storage, rawKey)
                   THEN w[self.storage].items[rawKey] ELSE EmptyText
           text == IF item = EmptyText THEN JsonText(Null) ELSE item
           parsed == JSONparse(text)
       IN IF ~parsed.ok
          THEN Outcome(w, read, SyntaxError, Undefined)
          ELSE IF ~isValidValue(parsed.val)
          THEN Outcome(w, read, NoThrow, Null)
          ELSE IF unExpired(Prop(parsed.val, EXPIRED_AT), t)
          THEN LET value == Prop(parsed.val, STOREAGE_VALUE)
                   again == set(self, w, t, key, value, keepAliveExpiredIn(parsed.val))
               IN IF shouldKeepAlive(self, parsed.val)
                  THEN Outcome(again.w, read \o again.trace, again.thrown, value)
                  ELSE Outcome(w, read, NoThrow, value)
          ELSE IF Raises(w, self.storage, "removeItem")
          THEN Outcome(w, read \o <<IoEvent("removeItem", self.storage, rawKey)>>,
                       BackendFault, Undefined)
          ELSE Outcome(removeItem(w, self.storage, rawKey),
                       read \o <<IoEvent("removeItem", self.storage, rawKey)>>,
                       NoThrow, Null)

\* faulty variant: no try/catch around the body
get_NoCatch(self, w, t, key) ==
  LET notified == notifyAction(self, "Get", GetAction(key))
      body == getTry(self, w, t, key)
  IN Outcome(body.w, notified \o body.trace, body.thrown, body.result)

\* get(key) at clock time t: the notification, then
\* try { ... } catch (e) { return null }
get(self, w, t, key) ==
  LET notified == notifyAction(self, "Get", GetAction(key))
      body == getTry(self, w, t, key)
  IN Outcome(body.w, notified \o body.trace, NoThrow,
             IF body.thrown = NoThrow THEN body.result ELSE Null)

\* remove(key)
remove(self, w, key) ==
  LET notified == notifyAction(self, "Remove", RemoveAction(key))
      rawKey == computeKey(self, key)
  IN IF self.storage = Unset
     THEN Outcome(w, notified, TypeError, Undefined)
     ELSE IF Raises(w, self.storage, "removeItem")
     THEN Outcome(w, notified \o <<IoEvent("removeItem", self.storage, rawKey)>>,
                  BackendFault, Undefined)
     ELSE Outcome(removeItem(w, self.storage, rawKey),
                  notified \o <<IoEvent("removeItem", self.storage, rawKey)>>,
                  NoThrow, Undefined)

\* faulty variant: clear() removes only the keys under the prefix of the store
clear_OwnPrefix(self, w) ==
  LET notified == notifyAction(self, "Clear", ClearAction)
      own(k) == Len(k) >= Len(self.prefix) + 2
                /\ SubSeq(k, 1, Len(self.prefix) + 2) = self.prefix \o <<"_", "_">>
  IN IF self.storage = Unset
     THEN Outcome(w, notified, TypeError, Undefined)
     ELSE IF Raises(w, self.storage, "clear")
     THEN Outcome(w, notified \o <<IoEvent("clear", self.storage, <<>>)>>,
                  BackendFault, Undefined)
     ELSE Outcome([w EXCEPT ![self.storage].items =
                     [k \in {x \in DOMAIN w[self.storage].items : ~own(x)} |->
                        w[self.storage].items[k]]],
                  notified \o <<IoEvent("clear", self.storage, <<>>)>>,
                  NoThrow, Undefined)

\* clear()
clear(self, w) ==
  LET notified == notifyAction(self, "Clear", ClearAction)
  IN IF self.storage = Unset
     THEN Outcome(w, notified, TypeError, Undefined)
     ELSE IF Raises(w, self.storage, "clear")
     THEN Outcome(w, notified \o <<IoEvent("clear", self.storage, <<>>)>>,
                  BackendFault, Undefined)
     ELSE Outcome(clearItems(w, self.storage),
                  notified \o <<IoEvent("clear", self.storage, <<>>)>>,
                  NoThrow, Undefined)

(***************************************************************************)
(* History kept for stating the properties                                 *)
(***************************************************************************)
\* seq: the run of calls since the most recent successful set, while every
\* call after it has been a get of the same key through the same store:
\* the set's arguments, its effective duration and time, how many gets
\* followed (2 stands for two or more) and whether every get came at most
\* expiredMs after the call before it
NoRun == [set |-> FALSE]
Run(s, key, value, expiredIn, expiredMs, t) ==
  [set |-> TRUE, store |-> s, key |-> key, value |-> value, expiredIn |-> expiredIn,
   expiredMs |-> expiredMs, time |-> t, gets |-> 0, spaced |-> TRUE]

\* the record of the most recent call: its arguments, its time, what it
\* returned, threw and produced, and (for clear) the keys the medium of the
\* store held when it was called
Call(op, s, key, value, expiredIn, t, out, held) ==
  [op |-> op, store |-> s, key |-> key, value |-> value, expiredIn |-> expiredIn,
   time |-> t, result |-> out.result, thrown |-> out.thrown, trace |-> out.trace,
   held |-> held]

\* ref: the reference map, kept by the specifications that compare the
\* store with one (NoRef elsewhere): for each key of each store, the value,
\* effective duration and time of the most recent set that completed, until
\* a remove of the key or a clear completes
NoRef == [tracked |-> FALSE]
EmptyRef == [tracked |-> TRUE, map |-> <<>>]

RefSet(r, s, key, value, expiredMs, t) ==
  IF r.tracked
  THEN [r EXCEPT !.map =
          [x \in DOMAIN r.map \cup {<<s, key>>} |->
             IF x = <<s, key>>
             THEN [value |-> value, expiredMs |-> expiredMs, time |-> t]
             ELSE r.map[x]]]
  ELSE r

RefRemove(r, s, key) ==
  IF r.tracked
  THEN [r EXCEPT !.map = [x \in DOMAIN r.map \ {<<s, key>>} |-> r.map[x]]]
  ELSE r

RefClear(r) == IF r.tracked THEN EmptyRef ELSE r

\* the stores after the error notifications of a call of store s reached
\* the subscribers of its error stream
Delivered(s, trace) == [stores EXCEPT ![s].errors = next(@, ErrorsOf(trace))]

(***************************************************************************)
(* Actions                                                                 *)
(***************************************************************************)
Set(s, k, v, e) ==
  LET out == set(stores[s], window, now, k, v, e)
  IN /\ window' = out.w
     /\ seq' = IF out.thrown = NoThrow
               THEN Run(s, k, v, e, computeExpiredMs(stores[s], e).n, now)
               ELSE NoRun
     /\ last' = Call("set", s, k, v, e, now, out, {})
     /\ ref' = IF out.thrown = NoThrow
               THEN RefSet(ref, s, k, v, computeExpiredMs(stores[s], e).n, now)
               ELSE ref
     /\ stores' = Delivered(s, out.trace)
     /\ UNCHANGED <<ctor, now>>

Get(s, k) ==
  LET out == get(stores[s], window, now, k)
  IN /\ window' = out.w
     /\ seq' = IF seq.set /\ seq.store = s /\ seq.key = k
               THEN [seq EXCEPT !.gets = IF seq.gets = 0 THEN 1 ELSE 2,
                                !.spaced = seq.spaced /\ now - last.time <= seq.expiredMs]
               ELSE NoRun
     /\ last' = Call("get", s, k, Undefined, Undefined, now, out, {})
     /\ stores' = Delivered(s, out.trace)
     /\ UNCHANGED <<ctor, now, ref>>

Remove(s, k) ==
  LET out == remove(stores[s], window, k)
  IN /\ window' = out.w
     /\ seq' = NoRun
     /\ last' = Call("remove", s, k, Undefined, Undefined, now, out, {})
     /\ ref' = IF out.thrown = NoThrow THEN RefRemove(ref, s, k) ELSE ref
     /\ stores' = Delivered(s, out.trace)
     /\ UNCHANGED <<ctor, now>>

Clear(s) ==
  LET out == clear(stores[s], window)
  IN /\ window' = out.w
     /\ seq' = NoRun
     /\ last' = Call("clear", s, <<>>, Undefined, Undefined, now, out,
                     IF stores[s].storage = Unset THEN {}
                     ELSE DOMAIN window[stores[s].storage].items)
     /\ ref' = IF out.thrown = NoThrow THEN RefClear(ref) ELSE ref
     /\ stores' = Delivered(s, out.trace)
     /\ UNCHANGED <<ctor, now>>

\* the clock advances
Tick ==
  /\ now < MaxTime
  /\ now' = now + 1
  /\ UNCHANGED <<window, stores, ctor, seq, last, ref>>

\* other code of the page writes a text into a usable medium
ForeignWrite(type, rawKey, text) ==
  /\ window[type].status = "usable"
  /\ window' = setItem(window, type, rawKey, text)
  /\ seq' = NoRun
  /\ last' = Call("foreign", 0, rawKey, Undefined, Undefined, now,
                  Outcome(window', <<>>, NoThrow, Undefined), {})
  /\ ref' = NoRef
  /\ UNCHANGED <<stores, ctor, now>>

\* the page subscribes to the action stream of store s: the subscribers
\* become subs
SubscribeActions(s, subs) ==
  /\ stores[s].actions # subs
  /\ stores' = [stores EXCEPT ![s].actions = subs]
  /\ UNCHANGED <<window, ctor, now, seq, last, ref>>

\* the page subscribes to the error stream of store s
SubscribeErrors(s) ==
  /\ ~stores[s].errors.subscribed
  /\ stores' = [stores EXCEPT ![s].errors = subscribe(@)]
  /\ UNCHANGED <<window, ctor, now, seq, last, ref>>

\* a usable medium starts to refuse calls: every access (status
\* "throwing") or the calls that change it (status "readonly")
Degrade(type, status) ==
  /\ window[type].status = "usable"
  /\ window' = [window EXCEPT ![type].status = status]
  /\ UNCHANGED <<stores, ctor, now, seq, last, ref>>

\* a key of the medium that no store computes
ForeignKey == <<"z">>

\* the keys of the medium the stores compute for the keys K
RawKeys(K) == {computeKey(stores[s], k) : s \in DOMAIN stores, k \in K}

\* the steps of a page that calls the stores with keys K, values V and
\* durations E, beside other code that writes the texts T at the keys R of
\* the medium
NextOver(K, V, E, R, T) ==
  \/ \E s \in DOMAIN stores, k \in K, v \in V, e \in E : Set(s, k, v, e)
  \/ \E s \in DOMAIN stores, k \in K : Get(s, k)
  \/ \E s \in DOMAIN stores, k \in K : Remove(s, k)
  \/ \E s \in DOMAIN stores : Clear(s)
  \/ Tick
  \/ \E type \in StorageTypes, rawKey \in R, text \in T :
       ForeignWrite(type, rawKey, text)

(***************************************************************************)
(* Initial states: the state after the stores are constructed              *)
(***************************************************************************)
Config(prefix, expiredIn, keepAlive, actionNotify) ==
  [prefix |-> prefix, expiredIn |-> expiredIn, keepAlive |-> keepAlive,
   actionNotify |-> actionNotify]

\* construct the stores of setup (a sequence of <<storageType, config>>) in
\* order against window w
RECURSIVE Build(_, _)
Build(setup, w) ==
  IF setup = <<>> THEN [w |-> w, built |-> <<>>]
  ELSE LET c == Construct(setup[1][1], setup[1][2], w)
           rest == Build(Tail(setup), c.w)
       IN [w |-> rest.w,
           built |-> <<[storageType |-> setup[1][1], config |-> setup[1][2], new |-> c]>>
                     \o rest.built]

\* the state after the stores of one of Setups are constructed against the
\* media in one of Statuses
Constructed(Statuses, Setups) ==
  \E status \in Statuses, setup \in Setups :
    LET w0 == [type \in StorageTypes |-> [status |-> status[type], items |-> <<>>]]
        b == Build(setup, w0)
        made == {i \in DOMAIN b.built : ~b.built[i].new.raised}
    IN /\ window = b.w
       /\ ctor = [i \in DOMAIN b.built |->
                    [storageType |-> b.built[i].storageType,
                     config |-> b.built[i].config,
                     raised |-> b.built[i].new.raised,
                     trace |-> b.built[i].new.trace]]
       /\ stores = [i \in made |-> b.built[i].new.self]
       /\ seq = NoRun
       /\ now = 0
       /\ last = Call("new", 0, <<>>, Undefined, Undefined, 0,
                      Outcome(b.w, <<>>, NoThrow, Undefined), {})

InitFrom(Statuses, Setups) == Constructed(Statuses, Setups) /\ ref = NoRef

\* window.localStorage usable, window.sessionStorage missing
LocalOnly == [type \in StorageTypes |-> IF type = StorageType_LOCAL THEN "usable" ELSE "absent"]

(***************************************************************************)
(* Spec: one store on a usable localStorage, over every prefix, default    *)
(* duration and keepAlive setting                                          *)
(***************************************************************************)
Keys == {<<"c">>}
Values == {Num(7), Str(<<"x">>)}
ExpiredIns ==
  {Undefined, Str(<<"0", "m", "s">>), Str(<<"1", "m", "s">>), Str(<<"-", "1", "m", "s">>),
   Str(<<"s", "o", "o", "n">>)}
ForeignTexts == {JunkText, JsonText(Null), JsonText(Num(5)), JsonText(Obj(<<>>))}

Prefixes == {Undefined, Str(<<"a">>)}
DefaultExpiredIns ==
  {Undefined, Str(<<"0", "m", "s">>), Str(<<"1", "m", "s">>), Str(<<"-", "2", "m", "s">>)}
KeepAlives == {Undefined, Bool(TRUE)}

Init ==
  InitFrom({LocalOnly},
           {<<<<StorageType_LOCAL, Config(p, d, ka, Undefined)>>>> :
              p \in Prefixes, d \in DefaultExpiredIns, ka \in KeepAlives})

Next == NextOver(Keys, Values, ExpiredIns, RawKeys(Keys) \cup {ForeignKey}, ForeignTexts)

Spec == Init /\ [][Next]_vars

(***************************************************************************)
(* Properties                                                              *)
(***************************************************************************)
\* the text the medium holds for key of store self in window w
ItemAt(w, self, key) ==
  IF self.storage # Unset /\ HasItem(w, self.storage, computeKey(self, key))
  THEN w[self.storage].items[computeKey(self, key)]
  ELSE [kind |-> "none"]

\* the last call was a get that continues the run of seq
GetInRun == seq.set /\ last.op = "get" /\ seq.gets >= 1

C2_ExpiryBoundary ==
  (GetInRun /\ seq.gets = 1 /\ Truthy(seq.expiredIn) /\ seq.expiredMs # -1)
    => IF last.time <= seq.time + seq.expiredMs
       THEN last.result = seq.value
       ELSE /\ last.result = Null
            /\ ItemAt(window, stores[seq.store], seq.key).kind = "none"
            /\ \E i \in DOMAIN last.trace :
                 last.trace[i] = IoEvent("removeItem", stores[seq.store].storage,
                                         computeKey(stores[seq.store], seq.key))

C2_Witness ==
  /\ GetInRun /\ seq.gets = 1 /\ seq.expiredIn = Str(<<"1", "m", "s">>)
  /\ last.time = seq.time + 1
  /\ last.result = Num(7)

C2_WitnessExpired ==
  /\ GetInRun /\ seq.gets = 1 /\ seq.expiredIn = Str(<<"1", "m", "s">>)
  /\ last.time = seq.time + 2
  /\ last.result = Null

\* C3: sliding expiration. With keepAlive enabled, after set(k, v, d) with a
\* finite duration d, every get(k) of a run of reads, each at most d after
\* the call before it, returns v and leaves the envelope of k with duration
\* d and expiry equal to the time of the read plus d.
C3_SlidingExpiration ==
  (/\ GetInRun /\ seq.spaced /\ seq.expiredMs # -1
   /\ Truthy(stores[seq.store].keepAlive))
    => /\ last.result = seq.value
       /\ ItemAt(window, stores[seq.store], seq.key)
            = JsonText(Obj([n \in {EXPIRED_MS, EXPIRED_AT, STOREAGE_VALUE} |->
                CASE n = EXPIRED_MS -> Num(seq.expiredMs)
                  [] n = EXPIRED_AT -> Num(last.time + seq.expiredMs)
                  [] n = STOREAGE_VALUE -> seq.value]))

\* a second read, later than set time + d, that still finds the entry alive
C3_Witness ==
  /\ GetInRun /\ seq.spaced /\ seq.gets = 2 /\ seq.expiredMs = 1
  /\ Truthy(stores[seq.store].keepAlive)
  /\ last.time = seq.time + 2
  /\ last.result = seq.value

\* the entry the medium holds for key of store self is live at time t
LiveAt(w, self, key, t) ==
  LET item == ItemAt(w, self, key)
  IN /\ item.kind = "json"
     /\ item.val.t = "object"
     /\ Prop(item.val, EXPIRED_AT).t = "number"
     /\ (Prop(item.val, EXPIRED_AT).n = -1 \/ Prop(item.val, EXPIRED_AT).n >= t)

\* this step is a call of get
GetStep == last' # last /\ last'.op = "get"

\* C4: with keepAlive disabled, get(k) on a live entry leaves the whole
\* medium unchanged; so does get(k) with keepAlive enabled on an entry that
\* never expires.
C4_ReadLeavesMedium ==
  [][(/\ GetStep
      /\ LiveAt(window, stores[last'.store], last'.key, now)
      /\ \/ ~Truthy(stores[last'.store].keepAlive)
         \/ Prop(ItemAt(window, stores[last'.store], last'.key).val, EXPIRED_AT) = Num(-1))
       => window' = window]_vars

\* a read with keepAlive disabled, later than the write, of an entry with a
\* finite expiry, beside a foreign key in the medium
C4_Witness ==
  /\ GetInRun /\ seq.expiredMs = 1 /\ last.time = seq.time + 1
  /\ ~Truthy(stores[seq.store].keepAlive)
  /\ last.result = seq.value
  /\ HasItem(window, StorageType_LOCAL, ForeignKey)

\* the text is not a valid envelope: JSON.parse rejects it, or it parses to
\* null, to a value that is no object, or to an object without a numeric
\* expiry
Malformed(item) ==
  \/ item.kind = "junk"
  \/ /\ item.kind = "json"
     /\ \/ item.val.t # "object"
        \/ /\ item.val.t = "object"
           /\ Prop(item.val, EXPIRED_AT).t # "number"

\* C7: for every content at the prefixed key of k that is not a valid
\* envelope, get(k) returns not found, does not raise and emits no error
\* notification.
C7_MalformedNotFound ==
  [][(GetStep /\ Malformed(ItemAt(window, stores[last'.store], last'.key)))
       => /\ last'.result = Null
          /\ last'.thrown = NoThrow
          /\ \A i \in DOMAIN last'.trace : ~IsError(last'.trace[i])]_vars

C7_Witness ==
  /\ last.op = "get" /\ last.result = Null
  /\ ItemAt(window, stores[last.store], last.key) = JunkText

C7_WitnessNoExpiry ==
  /\ last.op = "get" /\ last.result = Null
  /\ ItemAt(window, stores[last.store], last.key) = JsonText(Obj(<<>>))

(***************************************************************************)
(* SpecShared: two stores with different configured prefixes on the same   *)
(* usable localStorage                                                     *)
(***************************************************************************)
SharedKeys == {<<"c">>, <<"b", "_", "_", "c">>}
SharedValues == {Num(7)}
SharedExpiredIns == {Undefined, Str(<<"1", "m", "s">>)}
SharedPrefixes == {<<Str(<<"a">>), Str(<<"b">>)>>,
                   <<Str(<<"a">>), Str(<<"a", "_", "_", "b">>)>>}

InitShared ==
  InitFrom({LocalOnly},
           {<<<<StorageType_LOCAL, Config(pp[1], Undefined, Undefined, Undefined)>>,
              <<StorageType_LOCAL, Config(pp[2], Undefined, Undefined, Undefined)>>>> :
              pp \in SharedPrefixes})

NextShared ==
  NextOver(SharedKeys, SharedValues, SharedExpiredIns, {ForeignKey}, {JunkText})

SpecShared == InitShared /\ [][NextShared]_vars

\* C5: prefix isolation. For two stores on the same medium whose configured
\* prefixes differ, a set, a remove or an expiry removal of k1 through one
\* store never changes what get(k2) returns through the other.
C5_PrefixIsolation ==
  [][\A s1 \in DOMAIN stores, s2 \in DOMAIN stores :
       (/\ s1 # s2
        /\ ctor[s1].config.prefix # ctor[s2].config.prefix
        /\ stores[s1].storage = stores[s2].storage
        /\ last' # last /\ last'.store = s1
        /\ last'.op \in {"set", "remove", "get"})
         => \A k2 \in SharedKeys :
              get(stores[s2], window', now, k2).result
                = get(stores[s2], window, now, k2).result]_vars

\* C6: clear() on a store with an available backend removes every key of
\* the bound medium, whoever wrote it; afterwards get(k) returns not found
\* for every key of every store bound to that medium.
C6_ClearRemovesAll ==
  (last.op = "clear" /\ stores[last.store].storage # Unset)
    => /\ DOMAIN window[stores[last.store].storage].items = {}
       /\ \A s2 \in DOMAIN stores, k \in SharedKeys :
            stores[s2].storage = stores[last.store].storage
              => get(stores[s2], window, now, k).result = Null

\* clear() through store 1 of a medium that held a key of store 2 and a
\* key no store computes
C6_Witness ==
  /\ last.op = "clear" /\ last.store = 1
  /\ ForeignKey \in last.held
  /\ computeKey(stores[2], <<"c">>) \in last.held
  /\ DOMAIN window[StorageType_LOCAL].items = {}

(***************************************************************************)
(* SpecNotify: one store on a usable localStorage, over the actionNotify   *)
(* options and the keepAlive setting                                       *)
(***************************************************************************)
NotifyExpiredIns == {Undefined, Str(<<"1", "m", "s">>), Str(<<"s", "o", "o", "n">>)}
ActionNotifies ==
  {Undefined,
   Obj([a \in {"Set"} |-> Bool(TRUE)]),
   Obj([a \in {"Set", "Get"} |-> Bool(a = "Get")]),
   Obj([a \in ActionTypes |-> Bool(TRUE)])}

InitNotify ==
  InitFrom({LocalOnly},
           {<<<<StorageType_LOCAL, Config(Undefined, Undefined, ka, an)>>>> :
              ka \in KeepAlives, an \in ActionNotifies})

NextNotify == NextOver(Keys, Values, NotifyExpiredIns, {ForeignKey}, {JunkText})

SpecNotify == InitNotify /\ [][NextNotify]_vars

\* the Set notifications among the events of a call
SetNotifications(trace) ==
  {i \in DOMAIN trace : trace[i].e = "action" /\ trace[i].action.type = "Set"}

SetEnabled(self) == Truthy(Prop(self.actionNotify, "Set"))

IsCall == last.op \in {"set", "get", "remove", "clear"}

\* C8 as the spec states it: with actionNotify.Set unset or false no Set
\* notification is ever emitted; with it true the Set notifications are as
\* many as the set calls of the caller: one per set call, carrying its key,
\* value and raw duration string, and none in any other call.
C8_SetNotificationPerSetCall ==
  IsCall =>
    IF SetEnabled(stores[last.store]) /\ last.op = "set"
    THEN /\ Cardinality(SetNotifications(last.trace)) = 1
         /\ \A i \in SetNotifications(last.trace) :
              last.trace[i].action = SetAction(last.key, last.value, last.expiredIn)
    ELSE SetNotifications(last.trace) = {}

\* C8, amended: with actionNotify.Set unset or false no Set notification is
\* ever emitted; with it true every set call of the caller emits exactly
\* one, carrying its key, value and raw duration string, remove and clear
\* emit none, and get emits none with keepAlive disabled and at most one
\* (the one of its keep-alive re-write) with keepAlive enabled.
C8_SetNotificationGating ==
  IsCall =>
    IF SetEnabled(stores[last.store]) /\ last.op = "set"
    THEN /\ Cardinality(SetNotifications(last.trace)) = 1
         /\ \A i \in SetNotifications(last.trace) :
              last.trace[i].action = SetAction(last.key, last.value, last.expiredIn)
    ELSE IF /\ SetEnabled(stores[last.store]) /\ last.op = "get"
            /\ Truthy(stores[last.store].keepAlive)
    THEN Cardinality(SetNotifications(last.trace)) <= 1
    ELSE SetNotifications(last.trace) = {}

\* a set call with a duration that emitted its one Set notification
C8_Witness ==
  /\ last.op = "set" /\ SetEnabled(stores[last.store])
  /\ last.expiredIn = Str(<<"1", "m", "s">>)
  /\ last.trace[1] = ActionEvent(SetAction(last.key, last.value, last.expiredIn))

(***************************************************************************)
(* SpecBackend: one store of every backend kind against every state of     *)
(* the two media                                                           *)
(***************************************************************************)
BackendKinds == {StorageType_LOCAL, StorageType_SESSION, "cookieStorage"}
MediumStatuses == [StorageTypes -> {"usable", "absent", "throwing"}]
BackendExpiredIns == {Undefined, Str(<<"1", "m", "s">>)}

InitBackend ==
  InitFrom(MediumStatuses,
           {<<<<kind, Config(Undefined, Undefined, Undefined, an)>>>> :
              kind \in BackendKinds,
              an \in {Undefined, Obj([a \in ActionTypes |-> Bool(TRUE)])}})

NextBackend == NextOver(Keys, SharedValues, BackendExpiredIns, {ForeignKey}, {JunkText})

SpecBackend == InitBackend /\ [][NextBackend]_vars

\* the medium of the backend kind cannot be bound
Unbindable(i) ==
  \/ ctor[i].storageType \notin StorageTypes
  \/ window[ctor[i].storageType].status # "usable"

\* C9 as the spec states it: construction emits exactly one error
\* notification when the backend cannot be bound (the medium throws on
\* access, the medium is absent, the kind is unrecognized) and leaves the
\* handle unset; against a usable medium it emits none.
C9_OneErrorWhenUnbound ==
  \A i \in DOMAIN stores :
    IF Unbindable(i)
    THEN stores[i].storage = Unset /\ Len(ErrorsOf(ctor[i].trace)) = 1
    ELSE ErrorsOf(ctor[i].trace) = <<>>

\* C9, amended: construction emits exactly one error notification when the
\* medium is absent or the kind is unrecognized, and exactly two when the
\* medium throws on access: the code-500 error of the probe, then the
\* not-supported error of the kind. The handle is left unset in each case.
\* Against a usable medium it emits none.
C9_ConstructionErrors ==
  \A i \in DOMAIN stores :
    LET kind == ctor[i].storageType
        notSupported == IF kind = StorageType_LOCAL
                        THEN LOCAL_STORAGE_NOT_SUPPORTED
                        ELSE SESSION_STORAGE_NOT_SUPPORTED
        errors == ErrorsOf(ctor[i].trace)
    IN IF kind \notin StorageTypes
       THEN stores[i].storage = Unset /\ errors = <<ErrorEvent(UNKNOWN_STORAGE_TYPE)>>
       ELSE CASE window[kind].status = "absent" ->
                   stores[i].storage = Unset /\ errors = <<ErrorEvent(notSupported)>>
              [] window[kind].status = "throwing" ->
                   /\ stores[i].storage = Unset
                   /\ Len(errors) = 2
                   /\ errors[1].error.code = 500
                   /\ errors[2] = ErrorEvent(notSupported)
              [] window[kind].status = "usable" ->
                   stores[i].storage = kind /\ errors = <<>>

\* a store constructed for a sessionStorage that throws on access
C9_Witness ==
  /\ 1 \in DOMAIN stores
  /\ ctor[1].storageType = StorageType_SESSION
  /\ window[StorageType_SESSION].status = "throwing"
  /\ Len(ErrorsOf(ctor[1].trace)) = 2
  /\ stores[1].storage = Unset

\* C10: on a store whose backend handle is unset, every set, get, remove
\* and clear completes without raising, performs no backend I/O, emits no
\* error notification and still emits its action notification when that
\* kind is enabled; get returns not found. (A set whose duration string the
\* parser rejects is left aside: it raises whatever the handle.)
C10_UnsetHandleNoOps ==
  (/\ IsCall
   /\ stores[last.store].storage = Unset
   /\ last.op = "set" => computeExpiredMs(stores[last.store], last.expiredIn).ok)
    => /\ last.thrown = NoThrow
       /\ \A i \in DOMAIN last.trace : last.trace[i].e = "action"
       /\ Len(last.trace) =
            IF Truthy(Prop(stores[last.store].actionNotify,
                           CASE last.op = "set" -> "Set" [] last.op = "get" -> "Get"
                             [] last.op = "remove" -> "Remove" [] last.op = "clear" -> "Clear"))
            THEN 1 ELSE 0
       /\ last.op = "get" => last.result = Null

(***************************************************************************)
(* SpecSubscribers: one store of every backend kind against every state of *)
(* the two media, with a default duration that is absent or rejected by    *)
(* the parser, on a page that subscribes to the two streams                *)
(***************************************************************************)
ConstructExpiredIns == {Undefined, Str(<<"s", "o", "o", "n">>)}
AllNotified == Obj([a \in ActionTypes |-> Bool(TRUE)])

InitSubscribers ==
  InitFrom(MediumStatuses,
           {<<<<kind, Config(Undefined, d, ka, an)>>>> :
              kind \in BackendKinds, d \in ConstructExpiredIns, ka \in KeepAlives,
              an \in {Undefined, AllNotified}})

NextSubscribers ==
  \/ NextOver(Keys, SharedValues, BackendExpiredIns, {ForeignKey}, {JunkText})
  \/ \E s \in DOMAIN stores, subs \in ActionSubscribers : SubscribeActions(s, subs)
  \/ \E s \in DOMAIN stores : SubscribeErrors(s)

SpecSubscribers == InitSubscribers /\ [][NextSubscribers]_vars

\* the parser rejects the default duration of the configuration
RejectedDefault(config) == Truthy(config.expiredIn) /\ ~ms(config.expiredIn.s).ok

\* C11 as the spec states it: constructing a store never raises to the
\* caller: for every backend kind, every medium state and every
\* configuration the constructor returns a store instance.
C11_ConstructionNeverRaises ==
  \A i \in DOMAIN ctor : ~ctor[i].raised /\ i \in DOMAIN stores

\* C11, amended: constructing a store raises to the caller exactly when the
\* configured default duration is a string the parser rejects; for every
\* backend kind, every medium state and every other configuration the
\* constructor returns a store instance, and problems with the medium are
\* reported as error notifications only.
C11_ConstructionRaisesOnRejectedDuration ==
  \A i \in DOMAIN ctor :
    IF RejectedDefault(ctor[i].config)
    THEN ctor[i].raised /\ i \notin DOMAIN stores
    ELSE ~ctor[i].raised /\ i \in DOMAIN stores

\* a store returned by the constructor against a localStorage that throws
\* on access, the two errors reported as notifications
C11_Witness ==
  /\ 1 \in DOMAIN stores
  /\ ~ctor[1].raised
  /\ ctor[1].storageType = StorageType_LOCAL
  /\ ctor[1].config.keepAlive = Bool(TRUE)
  /\ window[StorageType_LOCAL].status = "throwing"
  /\ Len(ErrorsOf(ctor[1].trace)) = 2

(***************************************************************************)
(* SpecFaulty: one store on a localStorage that is usable or missing when  *)
(* the store is constructed and that may start to refuse calls afterwards  *)
(***************************************************************************)
NoMedium == [type \in StorageTypes |-> "absent"]
FaultStatuses == {"throwing", "readonly"}

InitFaulty ==
  InitFrom({LocalOnly, NoMedium},
           {<<<<StorageType_LOCAL, Config(Undefined, Undefined, ka, an)>>>> :
              ka \in KeepAlives, an \in {Undefined, AllNotified}})

NextFaulty ==
  \/ NextOver(Keys, SharedValues, NotifyExpiredIns, {ForeignKey}, {JunkText})
  \/ \E type \in StorageTypes, status \in FaultStatuses : Degrade(type, status)

SpecFaulty == InitFaulty /\ [][NextFaulty]_vars

\* this step is a call of set, get, remove or clear
CallStep == last' # last /\ last'.op \in {"set", "get", "remove", "clear"}

\* the medium raised in one of the backend calls of the trace
Faulted(w, trace) ==
  \E i \in DOMAIN trace :
    trace[i].e = "io" /\ Raises(w, trace[i].medium, trace[i].call)

\* C12: after construction with a bound backend, a fault raised by the
\* backend during set, get, remove or clear is never thrown to the caller;
\* it is funneled into the error stream as an error notification.
C12_BackendFaultsFunneled ==
  [][(/\ CallStep
      /\ stores[last'.store].storage # Unset
      /\ Faulted(window, last'.trace))
       => /\ last'.thrown = NoThrow
          /\ ErrorsOf(last'.trace) # <<>>]_vars

\* the action kind of a call and the record its notification carries
KindOf(op) ==
  CASE op = "set" -> "Set" [] op = "get" -> "Get"
    [] op = "remove" -> "Remove" [] op = "clear" -> "Clear"

ActionOf(call) ==
  CASE call.op = "set" -> SetAction(call.key, call.value, call.expiredIn)
    [] call.op = "get" -> GetAction(call.key)
    [] call.op = "remove" -> RemoveAction(call.key)
    [] call.op = "clear" -> ClearAction

\* C16: in every set, get, remove and clear call whose action kind is
\* enabled, the action notification is the first event of the call, before
\* any backend read, write, removal or clear, and it is emitted even when
\* the rest of the call fails (duration the parser rejects, backend fault,
\* unset backend handle).
C16_NotifiedBeforeEffect ==
  (IsCall /\ Truthy(Prop(stores[last.store].actionNotify, KindOf(last.op))))
    => /\ Len(last.trace) >= 1
       /\ last.trace[1] = ActionEvent(ActionOf(last))
       /\ \A i \in DOMAIN last.trace : last.trace[i].e = "io" => i > 1

\* a set whose write the medium refused, notified before the write
C16_Witness ==
  /\ last.op = "set" /\ last.thrown = BackendFault
  /\ last.trace[1] = ActionEvent(ActionOf(last))
  /\ Len(last.trace) = 2 /\ last.trace[2].e = "io"

\* a set with a duration the parser rejects, notified all the same
C16_WitnessRejected ==
  /\ last.op = "set" /\ last.thrown = DurationError
  /\ last.trace = <<ActionEvent(ActionOf(last))>>

\* a clear on an unset handle, notified all the same
C16_WitnessUnset ==
  /\ last.op = "clear" /\ last.thrown = TypeError
  /\ last.trace = <<ActionEvent(ClearAction)>>

(***************************************************************************)
(* Properties of SpecNotify: durations the parser rejects, notifications   *)
(* of the keep-alive re-write                                              *)
(***************************************************************************)
\* C13: set(k, v, d) with a duration string d the parser rejects surfaces
\* the failure to the caller and leaves the medium unchanged: the envelope
\* of k, if any, and every other key are as before the call.
C13_RejectedDurationSurfaces ==
  [][(/\ CallStep /\ last'.op = "set"
      /\ Truthy(last'.expiredIn) /\ ~ms(last'.expiredIn.s).ok)
       => /\ last'.thrown = DurationError
          /\ window' = window]_vars

\* a set with a rejected duration over an envelope of the key stored
\* earlier, beside a foreign key
C13_Witness ==
  /\ last.op = "set" /\ last.thrown = DurationError
  /\ last.expiredIn = Str(<<"s", "o", "o", "n">>)
  /\ LiveAt(window, stores[last.store], last.key, now)
  /\ HasItem(window, StorageType_LOCAL, ForeignKey)

(***************************************************************************)
(* SpecRef: one store with keepAlive disabled on a usable localStorage     *)
(* that nobody else writes, followed by a reference map                    *)
(***************************************************************************)
RefKeys == {<<"c">>, <<"d">>}
RefExpiredIns ==
  {Undefined, Str(<<"0", "m", "s">>), Str(<<"1", "m", "s">>), Str(<<"-", "1", "m", "s">>),
   Str(<<"s", "o", "o", "n">>)}
RefDefaultExpiredIns == {Undefined, Str(<<"1", "m", "s">>), Str(<<"-", "2", "m", "s">>)}

InitRef ==
  /\ Constructed({LocalOnly},
                 {<<<<StorageType_LOCAL, Config(Undefined, d, Undefined, Undefined)>>>> :
                    d \in RefDefaultExpiredIns})
  /\ ref = EmptyRef

NextRef ==
  \/ \E s \in DOMAIN stores, k \in RefKeys, v \in Values, e \in RefExpiredIns : Set(s, k, v, e)
  \/ \E s \in DOMAIN stores, k \in RefKeys : Get(s, k)
  \/ \E s \in DOMAIN stores, k \in RefKeys : Remove(s, k)
  \/ \E s \in DOMAIN stores : Clear(s)
  \/ Tick

SpecRef == InitRef /\ [][NextRef]_vars

\* what the reference map answers for key of store s at time t: the value
\* of the most recent set when no remove of the key or clear came since and
\* its duration is -1 or t is at most its time plus its duration
RefGet(r, s, key, t) ==
  IF /\ <<s, key>> \in DOMAIN r.map
     /\ \/ r.map[<<s, key>>].expiredMs = -1
        \/ t <= r.map[<<s, key>>].time + r.map[<<s, key>>].expiredMs
  THEN r.map[<<s, key>>].value
  ELSE Null

IsAction(ev) == ev.e = "action"

\* C19: the keep-alive re-write goes through set. With keepAlive enabled, a
\* get(k) that finds a live entry with finite expiry and stored duration n
\* emits, in this order, the Get notification (if Get is enabled) and then
\* one Set notification (if Set is enabled) carrying k, the value of the
\* entry and the duration string n followed by 'ms', before it returns the
\* value; a get that finds no entry, an expired entry or an entry that
\* never expires emits no Set notification.
C19_KeepAliveThroughSet ==
  [][GetStep =>
       LET self == stores[last'.store]
           item == ItemAt(window, self, last'.key)
           rewrites == /\ Truthy(self.keepAlive)
                       /\ LiveAt(window, self, last'.key, now)
                       /\ Prop(item.val, EXPIRED_AT) # Num(-1)
           getNotified == IF Truthy(Prop(self.actionNotify, "Get"))
                          THEN <<ActionEvent(GetAction(last'.key))>> ELSE <<>>
           setNotified ==
             IF rewrites /\ SetEnabled(self)
             THEN <<ActionEvent(SetAction(last'.key, Prop(item.val, STOREAGE_VALUE),
                      Str(StringOf(Prop(item.val, EXPIRED_MS)) \o <<"m", "s">>)))>>
             ELSE <<>>
       IN /\ SelectSeq(last'.trace, IsAction) = getNotified \o setNotified
          /\ rewrites => last'.result = Prop(item.val, STOREAGE_VALUE)]_vars

\* a get that emitted the Get notification, read the entry, emitted the
\* Set notification with the duration '1ms', wrote and returned the value
C19_Witness ==
  /\ last.op = "get" /\ last.result = Num(7)
  /\ Len(last.trace) = 4
  /\ last.trace[1] = ActionEvent(GetAction(last.key))
  /\ last.trace[2].e = "io"
  /\ last.trace[3] = ActionEvent(SetAction(last.key, Num(7), Str(<<"1", "m", "s">>)))
  /\ last.trace[4].e = "io"

(***************************************************************************)
(* Properties of Spec: the envelopes the store writes                      *)
(***************************************************************************)
\* the writes among the events of a call
Writes(trace) == {i \in DOMAIN trace : trace[i].e = "io" /\ trace[i].call = "setItem"}

Quiet(self) == [self EXCEPT !.actions = "quiet"]

\* the call c made through self against window w at time t
Perform(self, w, t, c) ==
  CASE c.op = "set" -> set(self, w, t, c.key, c.value, c.expiredIn)
    [] c.op = "get" -> get(self, w, t, c.key)
    [] c.op = "remove" -> remove(self, w, c.key)
    [] c.op = "clear" -> clear(self, w)

\* the emissions on the action stream among the events of a call
Emissions(trace) == {i \in DOMAIN trace : trace[i].e = "action"}

\* C17: subscriber fault isolation. When a subscriber of the action stream
\* raises during the emission of an enabled action notification, the fault
\* does not reach the caller of set, get, remove or clear (the call throws
\* and returns what it does with subscribers that return), each such
\* emission is followed by exactly one error notification with code 500 and
\* the message of the fault, and the call has the backend effect it has
\* with subscribers that return.
C17_SubscriberFaultIsolated ==
  [][(/\ CallStep
      /\ stores[last'.store].actions = "raising"
      /\ Emissions(last'.trace) # {})
       => LET quiet == Perform(Quiet(stores[last'.store]), window, now, last')
          IN /\ last'.thrown = quiet.thrown
             /\ last'.result = quiet.result
             /\ window' = quiet.w
             /\ \A i \in Emissions(last'.trace) :
                  /\ i < Len(last'.trace)
                  /\ last'.trace[i + 1] = ErrorEvent(RuntimeError(SubscriberFault))
             /\ Len(ErrorsOf(last'.trace)) = Cardinality(Emissions(last'.trace))
             /\ \A i \in DOMAIN last'.trace :
                  IsError(last'.trace[i]) => last'.trace[i].error.code = 500]_vars

\* a set through a store whose action subscriber raised: the error
\* notification follows the Set notification, then the write went through
C17_Witness ==
  /\ last.op = "set" /\ last.thrown = NoThrow
  /\ stores[last.store].actions = "raising"
  /\ Len(last.trace) = 3
  /\ last.trace[1].e = "action"
  /\ last.trace[2] = ErrorEvent(RuntimeError(SubscriberFault))
  /\ last.trace[3].e = "io"
  /\ LiveAt(window, stores[last.store], last.key, now)

\* C20: construction-time errors are unobservable. The error stream is
\* created with the instance and keeps nothing for later subscribers, and
\* subscribers attach after the constructor returned: no subscriber of the
\* error stream of a store ever receives an error notification emitted
\* during the construction of that store.
C20_ConstructionErrorsUnobserved ==
  \A i \in DOMAIN stores :
    \A j \in DOMAIN ctor[i].trace :
      IsError(ctor[i].trace[j]) => ctor[i].trace[j].error \notin stores[i].errors.received

\* a store whose construction emitted two errors, with a subscriber of its
\* error stream that has received a later error and neither of the two
C20_Witness ==
  /\ 1 \in DOMAIN stores
  /\ Len(ErrorsOf(ctor[1].trace)) = 2
  /\ stores[1].errors.subscribed
  /\ stores[1].errors.received = {RuntimeError(SubscriberFault)}

(***************************************************************************)
(* SpecForeign: one store on a usable localStorage where other code writes *)
(* envelopes at the key of the store, with and without a duration field    *)
(***************************************************************************)
\* an envelope holding the value 7 with the fields of names
EnvelopeOf(names, duration, at) ==
  JsonText(Obj([n \in names |->
    CASE n = EXPIRED_MS -> duration
      [] n = EXPIRED_AT -> at
      [] n = STOREAGE_VALUE -> Num(7)]))

EnvelopeTexts ==
  {EnvelopeOf({EXPIRED_AT, STOREAGE_VALUE}, Undefined, Num(-1)),
   EnvelopeOf({EXPIRED_AT, STOREAGE_VALUE}, Undefined, Num(1)),
   EnvelopeOf({EXPIRED_MS, EXPIRED_AT, STOREAGE_VALUE}, Str(<<"x">>), Num(1)),
   EnvelopeOf({EXPIRED_MS, EXPIRED_AT, STOREAGE_VALUE}, Num(1), Num(1)),
   EnvelopeOf({EXPIRED_MS, EXPIRED_AT}, Num(1), Num(1))}

InitForeign ==
  InitFrom({LocalOnly},
           {<<<<StorageType_LOCAL, Config(Undefined, Undefined, ka, Undefined)>>>> :
              ka \in KeepAlives})

NextForeign == NextOver(Keys, SharedValues, BackendExpiredIns, RawKeys(Keys), EnvelopeTexts)

SpecForeign == InitForeign /\ [][NextForeign]_vars

\* C18: live entries are always returned. For every stored content at the
\* prefixed key of k that parses to a non-null structured value whose
\* expiry field is a number equal to -1 or at or after the current time,
\* get(k) returns the value field of that content, whatever the keepAlive
\* setting and whatever the duration field holds (present, absent or not a
\* number).
C18_LiveEntriesReturned ==
  [][(GetStep /\ LiveAt(window, stores[last'.store], last'.key, now))
       => last'.result =
            Prop(ItemAt(window, stores[last'.store], last'.key).val, STOREAGE_VALUE)]_vars

====
